---- MODULE Spec2Model ----
(***************************************************************************)
(* Behavioural model of the SiteScripts page-behaviour component           *)
(* (src/unnamed/part_000): the panel toggler, the header links, the footer *)
(* copyright block, the load and resize timers, the lightbox overlay with  *)
(* its keyboard handling and image preloading, and the unmount.            *)
(*                                                                         *)
(* One action is one DOM event (or one asynchronous completion) together   *)
(* with every listener it reaches, the React state updates those listeners *)
(* request, the re-render and the effects the re-render runs.               *)
(***************************************************************************)
EXTENDS Integers, Sequences, FiniteSets, TLC

\* ------------------------------------------------------------------ bounds
NumPanels == 2      \* .panel elements of the full page
MaxItems == 3       \* thumbnail anchors of the page
MaxStale == 1       \* disarmed preloads whose completion is still in flight

\* --------------------------------------------------------------- the page
VARIABLES
    panels,         \* the .panel elements (document order)
    toggles,        \* the elements matching [href="#<panel id>"]
    toggleHref,     \* toggle -> the panel its href names
    hasCloser,      \* panel -> whether it holds a .closer element
    items,          \* GalleryItem hrefs, by thumbnail anchor in document order
    header,         \* whether #header exists (with one external link)
    footer,         \* whether .copyright, its parent and lastParent all exist
    supportsTransition  \* window.browser.canUse("transition") / style test

\* ------------------------------------------------------- class-list state
VARIABLES
    panelActive,    \* panel -> carries class "active"
    toggleActive,   \* toggle -> carries class "active"
    contentActive,  \* body carries class "content-active"
    modalActive     \* body carries class "modal-active"

\* ------------------------------------------------------------ React state
VARIABLES
    isOpen,         \* useState(false)
    activeIndex,    \* useState(0), zero-based
    isLoading       \* useState(false)

\* ------------------------------------------------- browser-side state
VARIABLES
    imgPending,     \* the rendered <img> has a load/error event to deliver
    preload,        \* the armed preload Image: "none", "loading", "complete"
    preloadHref,    \* the src the armed preload was issued for
    stale,          \* disarmed preloads still to complete
    focusInPopup,   \* keyboard focus is inside .poptrox-popup
    keyHeld,        \* the key currently down, or "none"
    escOpen,        \* the held Escape went down while the lightbox was open
    location        \* window.location.href: "page" or "external"

\* ------------------------------------------------ mount-lifetime state
VARIABLES
    mounted,        \* the component is mounted (its effects are not cleaned up)
    listeners,      \* the listener groups the mount effect has registered
    mqMatches,      \* matchMedia("(max-width: 980px)").matches
    mqPending,      \* a change event of that media query is to be delivered
    copyrightLoc,   \* the element holding .copyright: "parent" or "lastParent"
    isPreload,      \* body carries class "is-preload"
    isResizing,     \* body carries class "is-resizing"
    loadTimer,      \* the timeout of onLoad: "unset", "pending" or "fired"
    resizeTimer     \* the timeout of onResize is pending

domVars == <<panels, toggles, toggleHref, hasCloser, items, header, footer,
             supportsTransition>>
pageVars == <<mounted, listeners, mqMatches, mqPending, copyrightLoc,
              isPreload, isResizing, loadTimer, resizeTimer>>
panelVars == <<panelActive, toggleActive, contentActive>>
boxVars == <<isOpen, activeIndex, isLoading, modalActive, imgPending, preload,
             preloadHref, stale, focusInPopup>>
keyVars == <<keyHeld, escOpen>>
vars == <<domVars, panelVars, boxVars, keyVars, location, pageVars>>

\* ------------------------------------------------------------ DOM events
\* The two flags of a DOM Event that the listeners set.
Ev0 == [prevented |-> FALSE, stopped |-> FALSE]

preventDefault(ev) == [ev EXCEPT !.prevented = TRUE]

stopPropagation(ev) == [ev EXCEPT !.stopped = TRUE]

\* Bubbling: r is what the listeners so far left, next what the next listener
\* on the path makes of it; that listener runs unless propagation stopped.
Bubble(r, next) == IF r.ev.stopped THEN r ELSE next

\* ---------------------------------------------------------------- panels
\* The class lists setupPanels reads and writes, as one value.
PS == [pa |-> panelActive, ta |-> toggleActive, ca |-> contentActive]

Min(S) == CHOOSE x \in S : \A y \in S : x <= y

\* Faulty variant: hidePanel that leaves body's content-active in place.
hidePanelKeepBody(s, p) ==
    [pa |-> [s.pa EXCEPT ![p] = FALSE],
     ta |-> [t \in DOMAIN s.ta |-> IF toggleHref[t] = p THEN FALSE ELSE s.ta[t]],
     ca |-> s.ca]

hidePanel(s, p) ==
    [pa |-> [s.pa EXCEPT ![p] = FALSE],
     ta |-> [t \in DOMAIN s.ta |-> IF toggleHref[t] = p THEN FALSE ELSE s.ta[t]],
     ca |-> FALSE]

\* panelMap.forEach((entry) => hidePanel(entry.panel, entry.toggles))
RECURSIVE hideEach(_, _)
hideEach(s, P) ==
    IF P = {} THEN s ELSE hideEach(hidePanel(s, Min(P)), P \ {Min(P)})

\* Faulty variant: showPanel without the loop that hides every panel first.
showPanelNoHide(s, p) ==
    [pa |-> [s.pa EXCEPT ![p] = TRUE],
     ta |-> [t \in DOMAIN s.ta |-> IF toggleHref[t] = p THEN TRUE ELSE s.ta[t]],
     ca |-> TRUE]

showPanel(s, p) ==
    LET h == hideEach(s, panels)
    IN  [pa |-> [h.pa EXCEPT ![p] = TRUE],
         ta |-> [t \in DOMAIN h.ta |-> IF toggleHref[t] = p THEN TRUE ELSE h.ta[t]],
         ca |-> TRUE]

\* Faulty variant: togglePanel that never takes the hide branch.
togglePanelShowOnly(s, p) == showPanel(s, p)

togglePanel(s, p) == IF s.pa[p] THEN hidePanel(s, p) ELSE showPanel(s, p)

\* The listeners setupPanels registers; each returns the event and the classes.
\* Faulty variant: a panel listener that lets the click bubble on.
onPanelClickNoStop(ev, s) == [ev |-> ev, s |-> s]

onPanelClick(ev, s) == [ev |-> stopPropagation(ev), s |-> s]

onToggleClick(ev, s, p) ==
    [ev |-> stopPropagation(preventDefault(ev)), s |-> togglePanel(s, p)]

onCloseClick(ev, s, p) == [ev |-> preventDefault(ev), s |-> hidePanel(s, p)]

onBodyClick(ev, s) ==
    IF s.ca
    THEN [ev |-> stopPropagation(preventDefault(ev)), s |-> hideEach(s, panels)]
    ELSE [ev |-> ev, s |-> s]

onKeyUp(ev, key, s) ==
    IF key = "Escape" /\ s.ca
    THEN [ev |-> stopPropagation(preventDefault(ev)), s |-> hideEach(s, panels)]
    ELSE [ev |-> ev, s |-> s]

\* Writes the class lists a dispatch left behind.
SetPanels(s) ==
    /\ panelActive' = s.pa
    /\ toggleActive' = s.ta
    /\ contentActive' = s.ca

\* --------------------------------------------------------------- lightbox
EmptyHref == 0      \* anchor.getAttribute("href") ?? ""
Undefined == -1     \* items[activeIndex] when there is no such item

\* The React state the handlers update, as one value.
BS == [open |-> isOpen, idx |-> activeIndex, loading |-> isLoading]

\* activeItem?.href for a given index
ItemHref(index) ==
    IF index + 1 \in DOMAIN items THEN items[index + 1] ELSE Undefined

\* Faulty variants: the index updates without the modulo.
NextIndexNoWrap(index, n) == index + 1

NextIndex(index, n) == (index + 1) % n

PrevIndexNoWrap(index, n) == index - 1

PrevIndex(index, n) == (index - 1 + n) % n

\* The click listener of thumbnail anchor number `index`.
onThumbClick(ev, b, index) ==
    [ev |-> stopPropagation(preventDefault(ev)),
     b |-> [open |-> TRUE, idx |-> index, loading |-> TRUE]]

\* The window keydown listener of the lightbox.
onKeyDown(ev, key, b) ==
    IF ~b.open THEN [ev |-> ev, b |-> b]
    ELSE IF Len(items) = 0 THEN [ev |-> ev, b |-> b]
    ELSE LET b1 == IF key = "Escape" THEN [b EXCEPT !.open = FALSE] ELSE b
             b2 == IF key = "ArrowRight" \/ key = " "
                   THEN [b1 EXCEPT !.idx = NextIndex(@, Len(items)),
                                   !.loading = TRUE]
                   ELSE b1
             b3 == IF key = "ArrowLeft"
                   THEN [b2 EXCEPT !.idx = PrevIndex(@, Len(items)),
                                   !.loading = TRUE]
                   ELSE b2
         IN  [ev |-> IF key \in {"Escape", "ArrowRight", " ", "ArrowLeft"}
                     THEN preventDefault(ev) ELSE ev,
              b |-> b3]

\* onKeyDown of .poptrox-popup: React stops the native event at document.body,
\* the portal container, so it never reaches the window listener.
onPopupKeyDown(ev, b) == [ev |-> stopPropagation(ev), b |-> b]

\* onClick of the backdrop button and of the popup's closer button.
onBackdropClick(b) == [b EXCEPT !.open = FALSE]

onLightboxCloserClick(b) == [b EXCEPT !.open = FALSE]

\* onClick of .poptrox-popup; `interactive` is target.closest(...) # null.
onPopupClick(b, interactive) ==
    IF interactive THEN b ELSE [b EXCEPT !.open = FALSE]

onPrevClick(b) ==
    [b EXCEPT !.idx = PrevIndex(@, Len(items)), !.loading = TRUE]

\* Faulty variant: a next button that does not call setIsLoading(true).
onNextClickKeepLoading(b) == [b EXCEPT !.idx = NextIndex(@, Len(items))]

onNextClick(b) ==
    [b EXCEPT !.idx = NextIndex(@, Len(items)), !.loading = TRUE]

\* handleComplete of the preload, onLoad / onError of the rendered <img>.
handleComplete(b) == [b EXCEPT !.loading = FALSE]

onImgLoad(b) == [b EXCEPT !.loading = FALSE]

\* Faulty variant: an onError that leaves the loading flag alone.
onImgErrorKeepLoading(b) == b

onImgError(b) == [b EXCEPT !.loading = FALSE]

\* Whether the component renders the portal (and so the <img>).
Rendered(b) == b.open /\ ItemHref(b.idx) # Undefined

\* The preload effect runs again when [isOpen, activeItem?.href] changed.
\* Faulty variant: the effect with the dependency list [isOpen].
PreloadDepsChangedOpenOnly(b) == b.open # isOpen

PreloadDepsChanged(b) ==
    b.open # isOpen \/ ItemHref(b.idx) # ItemHref(activeIndex)

\* ... and returns early unless the lightbox is open on an item with an href.
PreloadIssued(b) ==
    /\ PreloadDepsChanged(b)
    /\ b.open
    /\ ItemHref(b.idx) # Undefined
    /\ ItemHref(b.idx) # EmptyHref

\* The loading flag the preload effect leaves: setIsLoading(true), then
\* setIsLoading(false) when previewImage.complete.
\* Faulty variant: the effect without its previewImage.complete test.
PreloadLoadingIgnoreComplete(b, complete) == TRUE

PreloadLoading(b, complete) == ~complete

\* The modal-active effect: body class follows isOpen.
\* Faulty variant: the effect without its classList.remove branch.
ModalClassAddOnly(b) == b.open \/ modalActive

ModalClass(b) == b.open

\* Re-render after the handlers left React state b, then the effects:
\* the preload effect (cleanup, new Image), the modal-active effect, and the
\* browser's handling of the <img> element's src. `focus` is where keyboard
\* focus is if the popup is still there afterwards.
Commit(b, focus) ==
    /\ PreloadDepsChanged(b) /\ preload # "none" => stale < MaxStale
    /\ isOpen' = b.open
    /\ activeIndex' = b.idx
    /\ modalActive' = ModalClass(b)
    /\ stale' = IF PreloadDepsChanged(b) /\ preload # "none"
                THEN stale + 1 ELSE stale
    /\ \E complete \in BOOLEAN :
        /\ ~PreloadIssued(b) => ~complete
        /\ isLoading' = IF PreloadIssued(b)
                        THEN PreloadLoading(b, complete) ELSE b.loading
        /\ preload' = IF ~PreloadDepsChanged(b) THEN preload
                      ELSE IF ~PreloadIssued(b) THEN "none"
                      ELSE IF complete THEN "complete" ELSE "loading"
    /\ preloadHref' = IF ~PreloadDepsChanged(b) THEN preloadHref
                      ELSE IF ~PreloadIssued(b) THEN Undefined
                      ELSE ItemHref(b.idx)
    /\ \E fires \in BOOLEAN :
        \* src="" is rendered (and fires error) or dropped, by React version
        /\ ItemHref(b.idx) # EmptyHref => fires
        /\ imgPending' =
             IF ~Rendered(b) THEN FALSE
             ELSE IF ~Rendered(BS) \/ ItemHref(b.idx) # ItemHref(activeIndex)
                  THEN fires
                  ELSE imgPending
    /\ focusInPopup' = IF Rendered(b) THEN focus ELSE FALSE

\* ------------------------------------------------------------ header links
onHeaderLinkClick(ev, s) ==
    [ev |-> stopPropagation(preventDefault(ev)), s |-> s, href |-> "external"]

\* ----------------------------------------------------------------- actions
Keys == {"Escape", "ArrowRight", " ", "ArrowLeft", "Tab"}

\* Click on a toggle control.
ToggleClick(t) ==
    /\ "panels" \in listeners
    /\ t \in toggles
    /\ LET r1 == onToggleClick(Ev0, PS, toggleHref[t])
           r2 == Bubble(r1, onBodyClick(r1.ev, r1.s))
       IN  SetPanels(r2.s)
    /\ UNCHANGED <<domVars, boxVars, keyVars, location, pageVars>>

\* Click on the .closer of a panel: closer, then the panel, then body.
PanelCloserClick(p) ==
    /\ "panels" \in listeners
    /\ p \in panels
    /\ hasCloser[p]
    /\ LET r1 == onCloseClick(Ev0, PS, p)
           r2 == Bubble(r1, onPanelClick(r1.ev, r1.s))
           r3 == Bubble(r2, onBodyClick(r2.ev, r2.s))
       IN  SetPanels(r3.s)
    /\ UNCHANGED <<domVars, boxVars, keyVars, location, pageVars>>

\* Click inside a panel, on neither its closer nor a toggle: the panel's
\* listener, then body.
InsidePanelDispatch(p) ==
    LET r1 == onPanelClick(Ev0, PS)
    IN  Bubble(r1, onBodyClick(r1.ev, r1.s))

PanelInsideClick(p) ==
    /\ "panels" \in listeners
    /\ p \in panels
    /\ SetPanels(InsidePanelDispatch(p).s)
    /\ UNCHANGED <<domVars, boxVars, keyVars, location, pageVars>>

\* Click on page content that carries no listener of its own.
OutsideClick ==
    /\ "panels" \in listeners
    /\ SetPanels(onBodyClick(Ev0, PS).s)
    /\ UNCHANGED <<domVars, boxVars, keyVars, location, pageVars>>

\* Click on an external link of #header.
HeaderLinkClick ==
    /\ header
    /\ "header" \in listeners
    /\ LET r1 == onHeaderLinkClick(Ev0, PS)
           r2 == Bubble([ev |-> r1.ev, s |-> r1.s], onBodyClick(r1.ev, r1.s))
       IN  /\ SetPanels(r2.s)
           /\ location' = r1.href
    /\ UNCHANGED <<domVars, boxVars, keyVars, pageVars>>

\* Click on thumbnail anchor number index.
ThumbClick(index) ==
    /\ mounted
    /\ index \in 0..(Len(items) - 1)
    /\ LET r == onThumbClick(Ev0, BS, index)
           rb == Bubble([ev |-> r.ev, s |-> PS], onBodyClick(r.ev, PS))
       IN  /\ Commit(r.b, focusInPopup)
           /\ SetPanels(rb.s)
    /\ UNCHANGED <<domVars, keyVars, location, pageVars>>

\* Clicks inside the overlay. The portal's container is document.body, where
\* React (17 and later) listens for the portal's events; onBodyClick listens
\* on the same node, so both run, and stopPropagation in either does not keep
\* the other from running.
BackdropClick ==
    /\ mounted
    /\ Rendered(BS)
    /\ Commit(onBackdropClick(BS), focusInPopup)
    /\ SetPanels(onBodyClick(Ev0, PS).s)
    /\ UNCHANGED <<domVars, keyVars, location, pageVars>>

LightboxCloserClick ==
    /\ mounted
    /\ Rendered(BS)
    /\ Commit(onLightboxCloserClick(BS), focusInPopup)
    /\ SetPanels(onBodyClick(Ev0, PS).s)
    /\ UNCHANGED <<domVars, keyVars, location, pageVars>>

\* A click may or may not move focus to the clicked control (by browser).
NavPrevClick ==
    /\ mounted
    /\ Rendered(BS)
    /\ \E focus \in {TRUE, focusInPopup} : Commit(onPrevClick(BS), focus)
    /\ SetPanels(onBodyClick(Ev0, PS).s)
    /\ UNCHANGED <<domVars, keyVars, location, pageVars>>

NavNextClick ==
    /\ mounted
    /\ Rendered(BS)
    /\ \E focus \in {TRUE, focusInPopup} : Commit(onNextClick(BS), focus)
    /\ SetPanels(onBodyClick(Ev0, PS).s)
    /\ UNCHANGED <<domVars, keyVars, location, pageVars>>

\* Click on the popup: on the image or caption (interactive) or elsewhere.
PopupClick(interactive) ==
    /\ mounted
    /\ Rendered(BS)
    /\ \E focus \in {TRUE, focusInPopup} :
         Commit(onPopupClick(BS, interactive), focus)
    /\ SetPanels(onBodyClick(Ev0, PS).s)
    /\ UNCHANGED <<domVars, keyVars, location, pageVars>>

\* A key goes down (or auto-repeats). With focus inside the popup the event
\* is stopped before the window listener; Tab moves focus.
KeyDown(key) ==
    /\ mounted
    /\ key \in Keys
    /\ keyHeld \in {"none", key}
    /\ LET r1 == IF focusInPopup THEN onPopupKeyDown(Ev0, BS)
                 ELSE [ev |-> Ev0, b |-> BS]
           r2 == IF r1.ev.stopped THEN r1 ELSE onKeyDown(r1.ev, key, r1.b)
       IN  \E focus \in BOOLEAN :
             /\ key # "Tab" => focus = focusInPopup
             /\ Commit(r2.b, focus)
    /\ keyHeld' = key
    /\ escOpen' = IF key # "Escape" THEN FALSE
                  ELSE IF keyHeld = "Escape" THEN escOpen ELSE isOpen
    /\ UNCHANGED <<domVars, panelVars, location, pageVars>>

\* The held key goes up: the window keyup listener of the panels.
KeyUp ==
    /\ "panels" \in listeners
    /\ keyHeld # "none"
    /\ SetPanels(onKeyUp(Ev0, keyHeld, PS).s)
    /\ keyHeld' = "none"
    /\ escOpen' = FALSE
    /\ UNCHANGED <<domVars, boxVars, location, pageVars>>

\* The rendered <img> delivers load / error.
ImgLoad ==
    /\ imgPending
    /\ isLoading' = onImgLoad(BS).loading
    /\ imgPending' = FALSE
    /\ UNCHANGED <<domVars, panelVars, keyVars, location, pageVars, isOpen,
                   activeIndex, modalActive, preload, preloadHref, stale,
                   focusInPopup>>

ImgError ==
    /\ imgPending
    /\ isLoading' = onImgError(BS).loading
    /\ imgPending' = FALSE
    /\ UNCHANGED <<domVars, panelVars, keyVars, location, pageVars, isOpen,
                   activeIndex, modalActive, preload, preloadHref, stale,
                   focusInPopup>>

\* The armed preload delivers load / error.
PreloadLoad ==
    /\ preload # "none"
    /\ isLoading' = handleComplete(BS).loading
    /\ preload' = "none"
    /\ preloadHref' = Undefined
    /\ UNCHANGED <<domVars, panelVars, keyVars, location, pageVars, isOpen,
                   activeIndex, modalActive, imgPending, stale, focusInPopup>>

PreloadError ==
    /\ preload # "none"
    /\ isLoading' = handleComplete(BS).loading
    /\ preload' = "none"
    /\ preloadHref' = Undefined
    /\ UNCHANGED <<domVars, panelVars, keyVars, location, pageVars, isOpen,
                   activeIndex, modalActive, imgPending, stale, focusInPopup>>

\* A disarmed preload completes: onload and onerror are null.
StalePreloadDone ==
    /\ stale > 0
    /\ stale' = stale - 1
    /\ UNCHANGED <<domVars, panelVars, keyVars, location, pageVars, isOpen,
                   activeIndex, isLoading, modalActive, imgPending, preload,
                   preloadHref, focusInPopup>>

\* ------------------------------------------------------ mount and unmount
\* updateLocation of setupFooterCopyright: the element .copyright is appended to.
\* Faulty variant: updateLocation that ignores mediaQuery.matches.
updateLocationNarrowOnly(matches) == "lastParent"

updateLocation(matches) == IF matches THEN "lastParent" ELSE "parent"

\* setupPanels always registers its listeners (body click, window keyup, and
\* the per-panel ones); setupHeaderLinks returns early without #header.
setupPanels == {"panels"}

setupHeaderLinks(h) == IF ~h THEN {} ELSE {"header"}

\* setupFooterCopyright: where .copyright is afterwards and what is registered.
\* Faulty variant: setupFooterCopyright without its early return.
setupFooterCopyrightNoGuard(f, matches, loc) ==
    [loc |-> updateLocation(matches), listeners |-> {"footer"}]

setupFooterCopyright(f, matches, loc) ==
    IF ~f THEN [loc |-> loc, listeners |-> {}]
    ELSE [loc |-> updateLocation(matches), listeners |-> {"footer"}]

\* The listener groups the mount effect leaves registered.
MountListeners ==
    (IF supportsTransition THEN {"load", "resize"} ELSE {})
        \cup setupPanels
        \cup setupHeaderLinks(header)
        \cup setupFooterCopyright(footer, mqMatches, "parent").listeners

\* onLoad and onResize of the mount effect: the timer and the class they set.
onLoad == "pending"

onResize == [resizing |-> TRUE, timer |-> TRUE]

\* The viewport crosses the 980px threshold: matches changes at once, the
\* change event is delivered later.
MediaFlip ==
    /\ mqMatches' = ~mqMatches
    /\ mqPending' = TRUE
    /\ UNCHANGED <<domVars, panelVars, boxVars, keyVars, location, mounted,
                   listeners, copyrightLoc, isPreload, isResizing, loadTimer,
                   resizeTimer>>

\* The change event of the media query: updateLocation, if still registered.
MediaChangeEvent ==
    /\ mqPending
    /\ mqPending' = FALSE
    /\ copyrightLoc' = IF "footer" \in listeners
                       THEN updateLocation(mqMatches) ELSE copyrightLoc
    /\ UNCHANGED <<domVars, panelVars, boxVars, keyVars, location, mounted,
                   listeners, mqMatches, isPreload, isResizing, loadTimer,
                   resizeTimer>>

\* The load event of window (once), to the onLoad listener.
WindowLoad ==
    /\ "load" \in listeners
    /\ loadTimer = "unset"
    /\ loadTimer' = onLoad
    /\ UNCHANGED <<domVars, panelVars, boxVars, keyVars, location, mounted,
                   listeners, mqMatches, mqPending, copyrightLoc, isPreload,
                   isResizing, resizeTimer>>

\* The 100 ms timeout of onLoad expires; nothing ever clears it.
LoadTimerExpiry ==
    /\ loadTimer = "pending"
    /\ loadTimer' = "fired"
    /\ isPreload' = FALSE
    /\ UNCHANGED <<domVars, panelVars, boxVars, keyVars, location, mounted,
                   listeners, mqMatches, mqPending, copyrightLoc, isResizing,
                   resizeTimer>>

\* A resize event of window, to the onResize listener: the pending timeout
\* is cleared and a new one set.
WindowResize ==
    /\ "resize" \in listeners
    /\ isResizing' = onResize.resizing
    /\ resizeTimer' = onResize.timer
    /\ UNCHANGED <<domVars, panelVars, boxVars, keyVars, location, mounted,
                   listeners, mqMatches, mqPending, copyrightLoc, isPreload,
                   loadTimer>>

\* The 100 ms timeout of onResize expires; only onResize itself clears it.
ResizeTimerExpiry ==
    /\ resizeTimer
    /\ resizeTimer' = FALSE
    /\ isResizing' = FALSE
    /\ UNCHANGED <<domVars, panelVars, boxVars, keyVars, location, mounted,
                   listeners, mqMatches, mqPending, copyrightLoc, isPreload,
                   loadTimer>>

\* The component unmounts: every effect's cleanup runs. The listeners are
\* removed, the armed preload is disarmed, the portal (with its <img>) leaves
\* the document. The class lists and the timers are left as they are.
Unmount ==
    /\ mounted
    /\ preload # "none" => stale < MaxStale
    /\ mounted' = FALSE
    /\ listeners' = {}
    /\ stale' = IF preload # "none" THEN stale + 1 ELSE stale
    /\ preload' = "none"
    /\ preloadHref' = Undefined
    /\ imgPending' = FALSE
    /\ focusInPopup' = FALSE
    /\ UNCHANGED <<domVars, panelVars, keyVars, location, isOpen, activeIndex,
                   isLoading, modalActive, mqMatches, mqPending, copyrightLoc,
                   isPreload, isResizing, loadTimer, resizeTimer>>

\* ------------------------------------------------------------------ pages
Max(S) == CHOOSE x \in S : \A y \in S : x >= y

\* The galleries of up to MaxItems anchors. hrefs are only compared with each
\* other and with "", so each gallery is taken once up to renaming of its
\* non-empty hrefs: a new href is the next unused number.
Galleries ==
    {g \in UNION {[1..n -> 0..MaxItems] : n \in 0..MaxItems} :
        \A i \in DOMAIN g : g[i] <= 1 + Max({0} \cup {g[j] : j \in 1..(i - 1)})}

\* State right after mount: no panel active, lightbox closed.
Mounted ==
    /\ panelActive = [p \in panels |-> FALSE]
    /\ toggleActive = [t \in toggles |-> FALSE]
    /\ contentActive = FALSE
    /\ modalActive = FALSE
    /\ isOpen = FALSE
    /\ activeIndex = 0
    /\ isLoading = FALSE
    /\ imgPending = FALSE
    /\ preload = "none"
    /\ preloadHref = Undefined
    /\ stale = 0
    /\ focusInPopup = FALSE
    /\ keyHeld = "none"
    /\ escOpen = FALSE
    /\ location = "page"
    /\ mounted = TRUE
    /\ listeners = MountListeners
    /\ mqPending = FALSE
    /\ copyrightLoc = setupFooterCopyright(footer, mqMatches, "parent").loc
    /\ isPreload = TRUE
    /\ isResizing = FALSE
    /\ loadTimer = IF supportsTransition THEN "unset" ELSE onLoad
    /\ resizeTimer = FALSE

\* The full page: every panel has a toggle (the first one has two), every
\* panel but the last has a closer, a gallery of MaxItems distinct images, a
\* header and a footer, on a wide viewport.
Init ==
    /\ panels = 1..NumPanels
    /\ toggles = 1..(NumPanels + 1)
    /\ toggleHref = [t \in 1..(NumPanels + 1) |-> ((t - 1) % NumPanels) + 1]
    /\ hasCloser = [p \in 1..NumPanels |-> p < NumPanels]
    /\ items = [i \in 1..MaxItems |-> i]
    /\ header = TRUE
    /\ footer = TRUE
    /\ supportsTransition = TRUE
    /\ mqMatches = FALSE
    /\ Mounted

\* A page with a gallery and nothing else.
InitLightbox ==
    /\ panels = {}
    /\ toggles = {}
    /\ toggleHref = <<>>
    /\ hasCloser = <<>>
    /\ items \in Galleries
    /\ header = FALSE
    /\ footer = FALSE
    /\ supportsTransition = TRUE
    /\ mqMatches = FALSE
    /\ Mounted

\* A small page whose optional parts vary: one panel with a toggle and a
\* closer, a gallery of one image, with or without #header and the footer
\* copyright block, on either side of the 980px threshold.
InitPage ==
    /\ panels = {1}
    /\ toggles = {1}
    /\ toggleHref = <<1>>
    /\ hasCloser = <<TRUE>>
    /\ items = <<1>>
    /\ header \in BOOLEAN
    /\ footer \in BOOLEAN
    /\ supportsTransition \in BOOLEAN
    /\ mqMatches \in BOOLEAN
    /\ Mounted

NextLightbox ==
    \/ \E index \in 0..(MaxItems - 1) : ThumbClick(index)
    \/ BackdropClick
    \/ LightboxCloserClick
    \/ NavPrevClick
    \/ NavNextClick
    \/ \E interactive \in BOOLEAN : PopupClick(interactive)
    \/ \E key \in Keys : KeyDown(key)
    \/ KeyUp
    \/ ImgLoad
    \/ ImgError
    \/ PreloadLoad
    \/ PreloadError
    \/ StalePreloadDone

Next ==
    \/ \E t \in 1..(NumPanels + 1) : ToggleClick(t)
    \/ \E p \in 1..NumPanels : PanelCloserClick(p)
    \/ \E p \in 1..NumPanels : PanelInsideClick(p)
    \/ OutsideClick
    \/ HeaderLinkClick
    \/ NextLightbox

\* The events of that page (of the keys, Escape only) together with the
\* viewport, the timers and the unmount.
NextPage ==
    \/ ToggleClick(1)
    \/ PanelCloserClick(1)
    \/ PanelInsideClick(1)
    \/ OutsideClick
    \/ HeaderLinkClick
    \/ ThumbClick(0)
    \/ BackdropClick
    \/ LightboxCloserClick
    \/ NavPrevClick
    \/ NavNextClick
    \/ \E interactive \in BOOLEAN : PopupClick(interactive)
    \/ KeyDown("Escape")
    \/ KeyUp
    \/ ImgLoad
    \/ ImgError
    \/ PreloadLoad
    \/ PreloadError
    \/ StalePreloadDone
    \/ MediaFlip
    \/ MediaChangeEvent
    \/ WindowLoad
    \/ LoadTimerExpiry
    \/ WindowResize
    \/ ResizeTimerExpiry
    \/ Unmount

Spec == Init /\ [][Next]_vars

SpecLightbox == InitLightbox /\ [][NextLightbox]_vars

SpecPage == InitPage /\ [][NextPage]_vars

\* The gallery page where every image event that is due is delivered.
SpecLightboxFair ==
    /\ SpecLightbox
    /\ WF_vars(ImgLoad \/ ImgError)
    /\ WF_vars(PreloadLoad \/ PreloadError)
    /\ WF_vars(StalePreloadDone)

\* -------------------------------------------------------------- properties
ActivePanels == {p \in panels : panelActive[p]}

NoPanelActive == ActivePanels = {}

\* C1: at most one panel carries the active class in every reachable state,
\* and a click on the toggle of an inactive panel B while another panel A is
\* active leaves A inactive and B active.
C1_AtMostOneActivePanel ==
    /\ [](Cardinality(ActivePanels) <= 1)
    /\ [][\A t \in toggles :
            (ToggleClick(t) /\ ~panelActive[toggleHref[t]])
                => ActivePanels' = {toggleHref[t]}]_vars

\* Panel 2 is the only active panel, with its toggle marked, while panel 1
\* (which has toggles of its own) is inactive.
C1_Witness ==
    /\ ActivePanels = {2}
    /\ \A t \in toggles : toggleActive[t] <=> (toggleHref[t] = 2)
    /\ \E t \in toggles : toggleHref[t] = 1
    /\ contentActive

\* A keydown that reaches the window listener (focus is outside the popup).
KeyNav(key) == KeyDown(key) /\ ~focusInPopup

C3_IndexInBounds == isOpen => (0 <= activeIndex /\ activeIndex < Len(items))

\* ArrowLeft is down and the lightbox shows the last of MaxItems items
\* (wrapped backwards from item 0).
C3_Witness ==
    /\ isOpen
    /\ Len(items) = MaxItems
    /\ activeIndex = Len(items) - 1
    /\ keyHeld = "ArrowLeft"

\* A load or error event of the target image: the rendered <img> or the
\* armed preload.
ImageSignal == ImgLoad \/ ImgError \/ PreloadLoad \/ PreloadError

\* C4 as stated: opening by a thumbnail click records the index and leaves
\* loading = true, and while the lightbox stays open on that item only a load
\* or error event of the target image clears loading.
C4_Original ==
    [][/\ \A index \in 0..(Len(items) - 1) :
            (~isOpen /\ ThumbClick(index))
                => (isOpen' /\ activeIndex' = index /\ isLoading')
       /\ (isOpen /\ isOpen' /\ activeIndex' = activeIndex
                  /\ isLoading /\ ~isLoading') => ImageSignal]_vars

\* C4 amended: opening by a thumbnail click records the index and leaves
\* loading = true unless the preload issued during opening is already complete
\* (previewImage.complete), in which case loading is cleared at once; while
\* the lightbox stays open on that item only a load or error event of the
\* target image clears loading.
C4_LoadingUntilSignalOrComplete ==
    [][/\ \A index \in 0..(Len(items) - 1) :
            (~isOpen /\ ThumbClick(index))
                => /\ isOpen'
                   /\ activeIndex' = index
                   /\ isLoading' <=> (preload' # "complete")
       /\ (isOpen /\ isOpen' /\ activeIndex' = activeIndex
                  /\ isLoading /\ ~isLoading') => ImageSignal]_vars

\* The lightbox is open, loading is already cleared, and neither the rendered
\* image nor the (complete) preload has delivered its event yet.
C4_Witness ==
    /\ isOpen
    /\ ~isLoading
    /\ preload = "complete"
    /\ imgPending

\* C5 as stated, for an Escape press whose keydown reaches the window
\* listener: with the lightbox open, the keydown closes the lightbox and the
\* keyup of that press leaves every panel, every toggle and the body
\* content-active class as they were. (With focus inside the popup the
\* keydown does not even close the lightbox: onPopupKeyDown stops it.)
C5_EscapeClosesLightboxOnly ==
    [][/\ (KeyNav("Escape") /\ keyHeld = "none" /\ isOpen) => ~isOpen'
       /\ (KeyUp /\ keyHeld = "Escape" /\ escOpen /\ ~isOpen)
              => UNCHANGED panelVars]_vars

\* C6 as stated: from every state with an active panel, an Escape keyup
\* leaves no panel and no toggle active and the body without content-active.
C6_EscapeDeactivatesAll ==
    [][(KeyUp /\ keyHeld = "Escape" /\ ~NoPanelActive)
          => /\ NoPanelActive'
             /\ \A t \in toggles : ~toggleActive'[t]
             /\ ~contentActive']_vars

\* C7 as stated: from every state with an active panel, a click on an
\* element outside that panel (plain page content, a gallery thumbnail, a
\* header link) leaves every panel inactive.
C7_OutsideClickDeactivatesAll ==
    [][(~NoPanelActive /\ (\/ OutsideClick
                           \/ HeaderLinkClick
                           \/ \E index \in 0..(Len(items) - 1) :
                                 ThumbClick(index)))
          => NoPanelActive']_vars

\* C8: with no panel active, the body click listener neither prevents nor
\* stops the event and changes no panel, toggle or body class.
C8_OutsideClickNoop ==
    NoPanelActive => onBodyClick(Ev0, PS) = [ev |-> Ev0, s |-> PS]

\* No panel is active while the lightbox is open (clicks inside the overlay
\* reach the body listener too), and a body click would go through untouched.
C8_Witness ==
    /\ NoPanelActive
    /\ isOpen
    /\ onBodyClick(Ev0, PS).ev = Ev0
    /\ onBodyClick(Ev0, PS).s = PS

\* C9: a toggle click flips its panel. Inactive: afterwards the panel and its
\* toggles are active, the body has content-active, every other panel is
\* inactive. Active: afterwards the panel and its toggles are inactive, the
\* body has no content-active, the other panels are as before.
C9_ToggleFlips ==
    [][\A t \in toggles :
          ToggleClick(t) =>
            LET p == toggleHref[t]
            IN  IF panelActive[p]
                THEN /\ ~panelActive'[p]
                     /\ \A u \in toggles : toggleHref[u] = p => ~toggleActive'[u]
                     /\ ~contentActive'
                     /\ \A q \in panels \ {p} : panelActive'[q] = panelActive[q]
                ELSE /\ panelActive'[p]
                     /\ \A u \in toggles : toggleHref[u] = p => toggleActive'[u]
                     /\ contentActive'
                     /\ \A q \in panels \ {p} : ~panelActive'[q]]_vars

\* Panel 1 alone is active, both of its toggles are marked and the body has
\* content-active.
C9_Witness ==
    /\ ActivePanels = {1}
    /\ Cardinality({t \in toggles : toggleHref[t] = 1 /\ toggleActive[t]}) = 2
    /\ \A t \in toggles : toggleHref[t] # 1 => ~toggleActive[t]
    /\ contentActive

\* C10: a click inside an active panel, on neither its closer nor a toggle,
\* stops at the panel: the dispatch leaves every panel class, every toggle
\* class and the body's content-active as they were.
C10_InsideClickNoop ==
    \A p \in ActivePanels : InsidePanelDispatch(p).s = PS

\* A panel is active with the body marked, with the lightbox closed: the
\* state in which the panel's content is clicked.
C10_Witness ==
    /\ ~NoPanelActive
    /\ contentActive
    /\ ~isOpen
    /\ keyHeld = "none"

\* C11 as stated: with the lightbox open, an Escape keydown, a click on the
\* closer, on the backdrop or on the popup outside its interactive region
\* closes it, and a click inside the interactive region leaves it open.
C11_CloseTriggers ==
    [][isOpen =>
        /\ (\/ KeyDown("Escape")
            \/ LightboxCloserClick
            \/ BackdropClick
            \/ PopupClick(FALSE)) => ~isOpen'
        /\ (PopupClick(TRUE) \/ NavPrevClick \/ NavNextClick) => isOpen']_vars

\* C12: while the component is mounted on a page with the footer copyright
\* block, and no change event of the media query is still to be delivered
\* (right after setup, and after every change event), the block is in the
\* narrow-layout container exactly when the query matches and in its original
\* container otherwise.
C12_CopyrightFollowsQuery ==
    (mounted /\ footer /\ ~mqPending)
        => /\ copyrightLoc = "lastParent" <=> mqMatches
           /\ copyrightLoc = "parent" <=> ~mqMatches

\* The query matches, its change event (if any) is delivered, the block is in
\* the narrow-layout container, and a window resize is being handled.
C12_Witness ==
    /\ mounted
    /\ footer
    /\ mqMatches
    /\ ~mqPending
    /\ copyrightLoc = "lastParent"
    /\ isResizing

\* C13 as stated: once the component is unmounted, no step changes a body
\* class, a panel or toggle class, the footer location or the lightbox state.
C13_NoChangeAfterUnmount ==
    [][~mounted =>
         UNCHANGED <<panelVars, modalActive, isPreload, isResizing,
                     copyrightLoc, isOpen, activeIndex, isLoading>>]_vars

\* C14: in every reachable state the body carries modal-active exactly when
\* the lightbox open flag is true.
C14_ModalActiveIffOpen == modalActive <=> isOpen

\* The lightbox was open when Escape went down and is closed now, with the
\* body class removed again.
C14_Witness ==
    /\ keyHeld = "Escape"
    /\ escOpen
    /\ ~isOpen
    /\ ~modalActive

\* A previous/next navigation: a button click, or an arrow keydown that
\* reaches the window listener.
Navigation ==
    NavNextClick \/ NavPrevClick \/ KeyNav("ArrowRight") \/ KeyNav("ArrowLeft")

C16_ErrorLikeLoad ==
    /\ []((isOpen /\ isLoading) =>
            /\ onImgError(BS) = onImgLoad(BS)
            /\ onImgLoad(BS) = [BS EXCEPT !.loading = FALSE]
            /\ handleComplete(BS) = [BS EXCEPT !.loading = FALSE])
    /\ [][(isOpen /\ isLoading /\ ImageSignal)
            => (isOpen' /\ ~isLoading' /\ activeIndex' = activeIndex)]_vars

\* The rendered image has delivered its event and loading is cleared while
\* the preload, which was not complete when issued, is still pending.
C16_Witness ==
    /\ isOpen
    /\ ~isLoading
    /\ ~imgPending
    /\ preload = "loading"

\* The lightbox opens, or its active item changes while it is open.
ItemChange ==
    \/ ~isOpen /\ isOpen'
    \/ isOpen /\ isOpen' /\ activeIndex' # activeIndex

\* The lightbox opens, or the link target of its active item changes.
TargetChange ==
    \/ ~isOpen /\ isOpen'
    \/ isOpen /\ isOpen' /\ ItemHref(activeIndex') # ItemHref(activeIndex)

\* The one preload with live callbacks, if any, is for the active item's URL.
ArmedForActiveItem ==
    preload # "none" => (isOpen /\ preloadHref = ItemHref(activeIndex))

\* The armed preload lost its callbacks in this step without completing.
Disarmed ==
    /\ preload # "none"
    /\ ~(PreloadLoad \/ PreloadError)
    /\ TargetChange \/ ~isOpen'

\* C17 as stated: whenever the lightbox opens or its active item changes
\* while open, a preload for the new target URL is armed; the armed preload is
\* always for the active item's URL; the completion of a disarmed preload
\* never changes the loading flag.
C17_Original ==
    /\ [][ItemChange => (/\ preload' # "none"
                         /\ preloadHref' = ItemHref(activeIndex'))]_vars
    /\ []ArmedForActiveItem
    /\ [][StalePreloadDone => isLoading' = isLoading]_vars

\* C17 amended: whenever the lightbox opens or the link target of its active
\* item changes while open, the earlier preload (if armed) is disarmed and a
\* preload for the new target is armed, provided the new target is not the
\* empty string (then none is armed); a change of the active item that keeps
\* the link target issues no preload and leaves the earlier one as it is; the
\* armed preload is always for the active item's URL; the completion of a
\* disarmed preload never changes the loading flag.
C17_PreloadPerTarget ==
    /\ [][TargetChange =>
            IF ItemHref(activeIndex') # EmptyHref
            THEN preload' # "none" /\ preloadHref' = ItemHref(activeIndex')
            ELSE preload' = "none"]_vars
    /\ [][(ItemChange /\ ~TargetChange) => UNCHANGED <<preload, preloadHref>>]_vars
    /\ [][Disarmed => stale' = stale + 1]_vars
    /\ []ArmedForActiveItem
    /\ [][StalePreloadDone => isLoading' = isLoading]_vars

\* The lightbox moved on to the second item, with another link target: the
\* preload armed now is for that target and the earlier one, disarmed, has
\* not completed yet.
C17_Witness ==
    /\ isOpen
    /\ Len(items) >= 2
    /\ activeIndex = 1
    /\ items[2] # items[1]
    /\ preload = "loading"
    /\ preloadHref = items[2]
    /\ stale = 1
    /\ isLoading

\* Every thumbnail anchor has a non-empty link target.
AllTargets == \A i \in DOMAIN items : items[i] # EmptyHref

\* C18 as stated, on the page where every due image event is delivered and
\* for the galleries whose anchors all have a link target: an open and loading
\* lightbox eventually is loaded or closed.
C18_LoadingResolves ==
    (AllTargets /\ isOpen /\ isLoading) ~> (~isOpen \/ ~isLoading)

\* C19 as stated: the body carries content-active exactly when some panel is
\* active.
C19_ContentActiveIffPanelActive == contentActive <=> ~NoPanelActive

\* C20: without #header no header listener is registered and no click
\* changes window.location; without the footer copyright block no media-query
\* listener is registered and no change event moves anything; on such pages
\* the panels and the lightbox keep their behaviour: a toggle click flips its
\* panel, an outside click leaves no panel active, a thumbnail click opens
\* the lightbox and the closer, the backdrop and the popup margin close it.
C20_MissingElementsNoop ==
    /\ [](/\ ~header => "header" \notin listeners
          /\ ~footer => "footer" \notin listeners
          /\ setupHeaderLinks(FALSE) = {}
          /\ setupFooterCopyright(FALSE, mqMatches, copyrightLoc) =
                [loc |-> copyrightLoc, listeners |-> {}])
    /\ [][/\ ~header => location' = location
          /\ ~footer => copyrightLoc' = copyrightLoc]_vars
    /\ [][(~header \/ ~footer) =>
            /\ ToggleClick(1) => /\ panelActive'[1] = ~panelActive[1]
                                 /\ toggleActive'[1] = ~panelActive[1]
                                 /\ contentActive' = ~panelActive[1]
            /\ OutsideClick => (contentActive => NoPanelActive')
            /\ ThumbClick(0) => (isOpen' /\ activeIndex' = 0 /\ modalActive')
            /\ (LightboxCloserClick \/ BackdropClick \/ PopupClick(FALSE))
                  => ~isOpen']_vars

\* A page with neither #header nor the footer block, on a narrow viewport
\* with no change event outstanding: nothing was moved, the panel is active
\* and the lightbox is open.
C20_Witness ==
    /\ ~header
    /\ ~footer
    /\ mounted
    /\ mqMatches
    /\ ~mqPending
    /\ copyrightLoc = "parent"
    /\ panelActive[1]
    /\ isOpen

====
